---- MODULE Spec2Model ----
(***************************************************************************)
(* A model of the scoring engine of software-stock-analyzer                *)
(* (src/src/analyzer.py), of its batch callers (analyzer.py, app.py) and   *)
(* of the universe builder (universe_builder.py).                          *)
(*                                                                         *)
(* Numbers.  Python computes the scores in floating point.  The model      *)
(* computes them exactly: a number is a fraction <<n, d>> in lowest terms  *)
(* with d > 0.  The null value (Python's None) is <<0, 0>>.  A market      *)
(* capitalisation is an integer of dollars too large for one machine word  *)
(* of the checker, so it is kept as two limbs <<hi, lo>> in base 10^9:     *)
(* hi * 10^9 + lo dollars, 0 <= lo < 10^9.                                 *)
(***************************************************************************)
EXTENDS Integers, Sequences, FiniteSets, TLC

VARIABLES
    op,          \* the operation the run exercises
    world,       \* the data collaborator: ticker -> what yf.Ticker(ticker) gives
    analyzer,    \* the CompleteStockAnalyzer: universe and the two band ends
    arg_ticker,  \* single-ticker operations: the ticker analysed
    arg_score,   \* get_rating: its argument
    rating,      \* get_rating: its result
    pc,          \* the position of the run
    ret,         \* what the operation returned
    calls,       \* the collaborator and sub-score calls made, in order
    tickers,     \* batch operations: the ticker sequence iterated
    idx,         \* loops: the number of tickers already processed
    results,     \* batch loops: the local list `results`
    last_analysis,  \* batch loops: what analyze_stock returned last
    analysed,    \* batch loops: the tickers handed to analyze_stock, in order
    stdout,      \* the lines printed
    progress_text,    \* app.py: the text of the progress widget
    session_state,    \* app.py: st.session_state (the keys present)
    displayed,        \* app.py: what main showed: a list, or an error text
    runs,             \* app.py: how many times the script has been run
    qualified_stocks, \* build_universe: the local list of rows
    invalid_tickers,  \* UniverseBuilder.invalid_tickers
    df                \* build_universe: the table returned

scoreVars == <<arg_ticker, arg_score, rating, calls>>
batchVars == <<tickers, idx, results, last_analysis, analysed, stdout,
               progress_text, session_state, displayed, runs>>
universeVars == <<qualified_stocks, invalid_tickers, df>>

vars == <<op, world, analyzer, pc, ret, scoreVars, batchVars, universeVars>>

-----------------------------------------------------------------------------
(* Exact arithmetic on fractions.                                          *)

RECURSIVE GCD(_, _)
GCD(a, b) == IF b = 0 THEN a ELSE GCD(b, a % b)

Abs(a) == IF a < 0 THEN -a ELSE a

\* The fraction n/d (d # 0) in lowest terms with a positive denominator.
Frac(n, d) ==
    LET g == GCD(Abs(n), Abs(d))
        s == IF d < 0 THEN -1 ELSE 1
    IN  <<(s * n) \div g, (s * d) \div g>>

Num(k) == <<k, 1>>
None == <<0, 0>>
IsNone(v) == v[2] = 0

RAdd(a, b) == Frac(a[1] * b[2] + b[1] * a[2], a[2] * b[2])
RSub(a, b) == Frac(a[1] * b[2] - b[1] * a[2], a[2] * b[2])
RMul(a, b) == Frac(a[1] * b[1], a[2] * b[2])
RDiv(a, b) == Frac(a[1] * b[2], a[2] * b[1])
RLt(a, b) == a[1] * b[2] < b[1] * a[2]
RLe(a, b) == a[1] * b[2] <= b[1] * a[2]
RGt(a, b) == RLt(b, a)
RGe(a, b) == RLe(b, a)

\* Python's min(a, b) and max(a, b): the first argument unless the second
\* is strictly smaller (larger).
PyMin(a, b) == IF RLt(b, a) THEN b ELSE a
PyMax(a, b) == IF RGt(b, a) THEN b ELSE a

\* Python's truth value of a number or None: None and 0 are false.
Truthy(v) == ~IsNone(v) /\ v[1] # 0

GetNoDefault(info, key, default) ==
    IF key \in DOMAIN info THEN info[key] ELSE None

\* dict.get(key, default)
Get(info, key, default) == IF key \in DOMAIN info THEN info[key] ELSE default

-----------------------------------------------------------------------------
(* CompleteStockAnalyzer: the pure scoring functions.                      *)

\* __init__: self.min_market_cap, self.max_market_cap, as <<hi, lo>>.
min_market_cap == <<1, 0>>
max_market_cap == <<70, 0>>

\* __init__: the analyzer just constructed; universe is the ticker column
\* of the table load_universe gave (empty when there is no file).
NewAnalyzer(universe) ==
    [universe |-> universe,
     min_market_cap |-> min_market_cap,
     max_market_cap |-> max_market_cap]

\* m1 < m2 on two-limb integers.
CapLt(m1, m2) == m1[1] < m2[1] \/ (m1[1] = m2[1] /\ m1[2] < m2[2])

get_rating_strict(score) ==
    IF RGt(score, Num(90)) THEN "Strong Buy"
    ELSE IF RGt(score, Num(80)) THEN "Buy"
    ELSE IF RGt(score, Num(70)) THEN "Accumulate"
    ELSE IF RGt(score, Num(60)) THEN "Hold"
    ELSE IF RGt(score, Num(50)) THEN "Reduce"
    ELSE "Sell"

get_rating(score) ==
    IF RGe(score, Num(90)) THEN "Strong Buy"
    ELSE IF RGe(score, Num(80)) THEN "Buy"
    ELSE IF RGe(score, Num(70)) THEN "Accumulate"
    ELSE IF RGe(score, Num(60)) THEN "Hold"
    ELSE IF RGe(score, Num(50)) THEN "Reduce"
    ELSE "Sell"

\* A function that raised: the exception's text.
Raised(what) == [raised |-> TRUE, error |-> what]

ClampNoCeiling(x) == PyMax(Num(0), x)

\* min(100, max(0, x))
Clamp(x) == PyMin(Num(100), PyMax(Num(0), x))

calculate_growth_value_score_floor_half(info) ==
    LET ps_ratio == Get(info, "priceToSalesTrailing12Months", Num(0))
        revenue_growth ==
            IF Truthy(Get(info, "revenueGrowth", None))
            THEN RMul(Get(info, "revenueGrowth", Num(0)), Num(100))
            ELSE Num(0)
        gross_margins ==
            IF Truthy(Get(info, "grossMargins", None))
            THEN RMul(Get(info, "grossMargins", Num(0)), Num(100))
            ELSE Num(0)
    IN  IF IsNone(ps_ratio)
        THEN Raised("TypeError")
        ELSE [raised |-> FALSE,
              growth_score |-> Clamp(RMul(revenue_growth, Num(2))),
              alignment_score |->
                Clamp(RMul(Num(100),
                           RDiv(RMul(revenue_growth, Frac(1, 2)),
                                PyMax(ps_ratio, Frac(1, 2))))),
              margin_score |-> Clamp(RMul(gross_margins, Frac(125, 100))),
              metrics |-> [ps_ratio |-> ps_ratio,
                           revenue_growth |-> revenue_growth,
                           gross_margins |-> gross_margins]]

calculate_growth_value_score(info) ==
    LET ps_ratio == Get(info, "priceToSalesTrailing12Months", Num(0))
        revenue_growth ==
            IF Truthy(Get(info, "revenueGrowth", None))
            THEN RMul(Get(info, "revenueGrowth", Num(0)), Num(100))
            ELSE Num(0)
        gross_margins ==
            IF Truthy(Get(info, "grossMargins", None))
            THEN RMul(Get(info, "grossMargins", Num(0)), Num(100))
            ELSE Num(0)
        growth_score == Clamp(RMul(revenue_growth, Num(2)))
        growth_justified_ps == RMul(revenue_growth, Frac(1, 2))
        alignment_score ==
            Clamp(RMul(Num(100),
                       RDiv(growth_justified_ps, PyMax(ps_ratio, Num(1)))))
        margin_score == Clamp(RMul(gross_margins, Frac(125, 100)))
    IN  IF IsNone(ps_ratio)
        THEN Raised("TypeError")   \* max(None, 1)
        ELSE [raised |-> FALSE,
              growth_score |-> growth_score,
              alignment_score |-> alignment_score,
              margin_score |-> margin_score,
              metrics |-> [ps_ratio |-> ps_ratio,
                           revenue_growth |-> revenue_growth,
                           gross_margins |-> gross_margins]]

calculate_business_health_uncapped_ratio(info) ==
    LET current_ratio == Get(info, "currentRatio", Num(1))
        debt_to_equity == Get(info, "debtToEquity", Num(0))
        totalCash == Get(info, "totalCash", Num(0))
        totalDebt == Get(info, "totalDebt", Num(1))
        cash_to_debt == RDiv(totalCash, PyMax(totalDebt, Num(1)))
        heldPercentInsiders == Get(info, "heldPercentInsiders", Num(0))
        heldPercentInstitutions == Get(info, "heldPercentInstitutions", Num(0))
        insider_percent == RMul(heldPercentInsiders, Num(100))
        inst_percent == RMul(heldPercentInstitutions, Num(100))
    IN  IF \/ IsNone(current_ratio) \/ IsNone(debt_to_equity)
           \/ IsNone(totalCash) \/ IsNone(totalDebt)
           \/ IsNone(heldPercentInsiders) \/ IsNone(heldPercentInstitutions)
        THEN Raised("TypeError")
        ELSE [raised |-> FALSE,
              financial_score |->
                Clamp(RAdd(RAdd(RMul(Num(30), current_ratio),
                                RMul(Num(40), PyMin(Num(1), cash_to_debt))),
                           RMul(Num(30),
                                RSub(Num(1),
                                     PyMin(Num(1),
                                           RDiv(debt_to_equity, Num(100))))))),
              insider_score |->
                Clamp(RAdd(RMul(Num(50),
                                PyMin(Num(1), RDiv(insider_percent, Num(20)))),
                           RMul(Num(50),
                                PyMin(Num(1), RDiv(inst_percent, Num(70)))))),
              metrics |-> [current_ratio |-> current_ratio,
                           cash_to_debt |-> cash_to_debt,
                           insider_ownership |-> insider_percent,
                           institutional_ownership |-> inst_percent]]

calculate_business_health(info) ==
    LET current_ratio == Get(info, "currentRatio", Num(1))
        debt_to_equity == Get(info, "debtToEquity", Num(0))
        totalCash == Get(info, "totalCash", Num(0))
        totalDebt == Get(info, "totalDebt", Num(1))
        cash_to_debt == RDiv(totalCash, PyMax(totalDebt, Num(1)))
        financial_score ==
            Clamp(RAdd(RAdd(RMul(Num(30), PyMin(Num(2), current_ratio)),
                            RMul(Num(40), PyMin(Num(1), cash_to_debt))),
                       RMul(Num(30),
                            RSub(Num(1),
                                 PyMin(Num(1), RDiv(debt_to_equity, Num(100)))))))
        heldPercentInsiders == Get(info, "heldPercentInsiders", Num(0))
        heldPercentInstitutions == Get(info, "heldPercentInstitutions", Num(0))
        insider_percent == RMul(heldPercentInsiders, Num(100))
        inst_percent == RMul(heldPercentInstitutions, Num(100))
        insider_score ==
            Clamp(RAdd(RMul(Num(50), PyMin(Num(1), RDiv(insider_percent, Num(20)))),
                       RMul(Num(50), PyMin(Num(1), RDiv(inst_percent, Num(70))))))
    IN  IF \/ IsNone(current_ratio) \/ IsNone(debt_to_equity)
           \/ IsNone(totalCash) \/ IsNone(totalDebt)
           \/ IsNone(heldPercentInsiders) \/ IsNone(heldPercentInstitutions)
        THEN Raised("TypeError")   \* arithmetic or comparison on None
        ELSE [raised |-> FALSE,
              financial_score |-> financial_score,
              insider_score |-> insider_score,
              metrics |-> [current_ratio |-> current_ratio,
                           cash_to_debt |-> cash_to_debt,
                           insider_ownership |-> insider_percent,
                           institutional_ownership |-> inst_percent]]


\* sum of field f of the records h[lo..hi]
RECURSIVE SumField(_, _, _, _)
SumField(h, f, lo, hi) ==
    IF lo > hi THEN 0
    ELSE IF lo = hi THEN h[lo][f]
    ELSE LET mid == (lo + hi) \div 2
         IN  SumField(h, f, lo, mid) + SumField(h, f, mid + 1, hi)

TailMeanShort(h, f, k) == Frac(SumField(h, f, Len(h) - k + 2, Len(h)), k - 1)

\* h[f].iloc[-k:].mean(), also h[f].rolling(window=k).mean().iloc[-1],
\* for a history of at least k records
TailMean(h, f, k) == Frac(SumField(h, f, Len(h) - k + 1, Len(h)), k)

RangeMeanToEnd(h, f, a, b) == Frac(SumField(h, f, Len(h) - a + 1, Len(h)), a)

\* h[f].iloc[-a:-b].mean() for a > b > 0 and a history of at least a records
RangeMean(h, f, a, b) ==
    Frac(SumField(h, f, Len(h) - a + 1, Len(h) - b), a - b)

FallbackSixty ==
    [raised |-> FALSE,
     momentum_score |-> Num(60),
     volume_score |-> Num(50),
     metrics |-> [price_vs_ma50 |-> Num(0),
                  price_vs_ma200 |-> Num(0),
                  volume_trend |-> Num(1)]]

\* The answer of calculate_market_validation to a history that is too short.
Fallback ==
    [raised |-> FALSE,
     momentum_score |-> Num(50),
     volume_score |-> Num(50),
     metrics |-> [price_vs_ma50 |-> Num(0),
                  price_vs_ma200 |-> Num(0),
                  volume_trend |-> Num(1)]]

InsufficientHistoryLe(hist) == Len(hist) <= 200

\* len(hist) < 200
InsufficientHistory(hist) == Len(hist) < 200

calculate_market_validation(stock) ==
    LET hist == stock.hist
        current_price == Num(hist[Len(hist)].Close)
        ma50 == TailMean(hist, "Close", 50)
        ma200 == TailMean(hist, "Close", 200)
        momentum_score ==
            (IF RGt(current_price, ma50) THEN 40 ELSE 0)
            + (IF RGt(current_price, ma200) THEN 40 ELSE 0)
            + (IF RGt(ma50, ma200) THEN 20 ELSE 0)
        recent_volume == TailMean(hist, "Volume", 20)
        old_volume == RangeMean(hist, "Volume", 50, 20)
        volume_trend ==
            IF RGt(old_volume, Num(0)) THEN RDiv(recent_volume, old_volume)
            ELSE Num(1)
        volume_score == Clamp(RMul(Num(50), volume_trend))
    IN  IF stock.hist_raises THEN Raised("HistoryError")
        ELSE IF InsufficientHistory(hist) THEN Fallback
        ELSE [raised |-> FALSE,
              momentum_score |-> Num(momentum_score),
              volume_score |-> volume_score,
              metrics |->
                [price_vs_ma50 |->
                    IF RGt(ma50, Num(0))
                    THEN RMul(RSub(RDiv(current_price, ma50), Num(1)), Num(100))
                    ELSE Num(0),
                 price_vs_ma200 |->
                    IF RGt(ma200, Num(0))
                    THEN RMul(RSub(RDiv(current_price, ma200), Num(1)), Num(100))
                    ELSE Num(0),
                 volume_trend |-> volume_trend]]

-----------------------------------------------------------------------------
(* analyze_stock.  A stock is what yf.Ticker(ticker) stands for:           *)
(*   info        the info mapping (a function on the keys present),        *)
(*   info_raises whether reading stock.info raises,                        *)
(*   hist        the price history, a sequence of [Close, Volume],         *)
(*   hist_raises whether stock.history raises.                             *)
(* The result is the value returned and the calls made on the way.         *)

\* Python's None as a returned value: a mapping with no key.
PyNone == <<>>

\* A market cap that is present and null.
CapNone == <<-1, 0>>

ErrorRecord(ticker, e) == [ticker |-> ticker, error |-> e]

OutOfBandStrict(market_cap) ==
    \/ ~CapLt(analyzer.min_market_cap, market_cap)
    \/ ~CapLt(market_cap, analyzer.max_market_cap)

\* market_cap < self.min_market_cap or market_cap > self.max_market_cap
OutOfBand(market_cap) ==
    \/ CapLt(market_cap, analyzer.min_market_cap)
    \/ CapLt(analyzer.max_market_cap, market_cap)

WeightsGrowthHeavy ==
    [growth |-> 25, value_alignment |-> 20, margins |-> 10,
     financial_health |-> 15, insider_confidence |-> 15,
     momentum |-> 10, volume_trends |-> 10]

\* The seven weights of the composite score, in hundredths.
Weights ==
    [growth |-> 20, value_alignment |-> 20, margins |-> 10,
     financial_health |-> 15, insider_confidence |-> 15,
     momentum |-> 10, volume_trends |-> 10]

W(name) == Frac(Weights[name], 100)

analyze_stock(stock, ticker) ==
    LET info == stock.info
        market_cap == Get(info, "marketCap", <<0, 0>>)
        growth_value == calculate_growth_value_score(info)
        business == calculate_business_health(info)
        market == calculate_market_validation(stock)
        composite_score ==
            RAdd(RAdd(RAdd(RAdd(RAdd(RAdd(
                RMul(W("growth"), growth_value.growth_score),
                RMul(W("value_alignment"), growth_value.alignment_score)),
                RMul(W("margins"), growth_value.margin_score)),
                RMul(W("financial_health"), business.financial_score)),
                RMul(W("insider_confidence"), business.insider_score)),
                RMul(W("momentum"), market.momentum_score)),
                RMul(W("volume_trends"), market.volume_score))
        c0 == <<"info">>
        c1 == c0 \o <<"calculate_growth_value_score">>
        c2 == c1 \o <<"calculate_business_health">>
        c3 == c2 \o <<"calculate_market_validation", "history">>
    IN  IF stock.info_raises
        THEN [ret |-> ErrorRecord(ticker, "InfoError"), calls |-> c0]
        ELSE IF market_cap = CapNone
        THEN [ret |-> ErrorRecord(ticker, "TypeError"), calls |-> c0]
        ELSE IF OutOfBand(market_cap)
        THEN [ret |-> PyNone, calls |-> c0]
        ELSE IF growth_value.raised
        THEN [ret |-> ErrorRecord(ticker, growth_value.error), calls |-> c1]
        ELSE IF business.raised
        THEN [ret |-> ErrorRecord(ticker, business.error), calls |-> c2]
        ELSE IF market.raised
        THEN [ret |-> ErrorRecord(ticker, market.error), calls |-> c3]
        ELSE [ret |->
                [ticker |-> ticker,
                 name |-> Get(info, "longName", ticker),
                 market_cap |-> market_cap,  \* billions, lo as 9 decimals
                 composite_score |-> composite_score,
                 rating |-> get_rating(composite_score),
                 component_scores |->
                    [growth |-> growth_value.growth_score,
                     value_alignment |-> growth_value.alignment_score,
                     margins |-> growth_value.margin_score,
                     financial_health |-> business.financial_score,
                     insider_confidence |-> business.insider_score,
                     momentum |-> market.momentum_score,
                     volume_trends |-> market.volume_score],
                 key_metrics |->
                    [ps_ratio |-> growth_value.metrics.ps_ratio,
                     revenue_growth |-> growth_value.metrics.revenue_growth,
                     gross_margins |-> growth_value.metrics.gross_margins,
                     current_ratio |-> business.metrics.current_ratio,
                     cash_to_debt |-> business.metrics.cash_to_debt,
                     insider_ownership |-> business.metrics.insider_ownership,
                     institutional_ownership |->
                        business.metrics.institutional_ownership,
                     price_vs_ma50 |-> market.metrics.price_vs_ma50,
                     price_vs_ma200 |-> market.metrics.price_vs_ma200,
                     volume_trend |-> market.metrics.volume_trend]],
              calls |-> c3]

SelfAfterAnalyzeStockWidened(self) == [self EXCEPT !.min_market_cap = <<0, 0>>]

\* The analyzer after a call of analyze_stock: the method reads
\* self.min_market_cap and self.max_market_cap and assigns no attribute.
SelfAfterAnalyzeStock(self) == self

\* What the callers test: `analysis and 'composite_score' in analysis`.
IsScored(analysis) == "composite_score" \in DOMAIN analysis
IsError(analysis) == "error" \in DOMAIN analysis

-----------------------------------------------------------------------------
(* The inputs the runs draw from.                                          *)

NumericKeys ==
    {"priceToSalesTrailing12Months", "revenueGrowth", "grossMargins",
     "currentRatio", "debtToEquity", "totalCash", "totalDebt",
     "heldPercentInsiders", "heldPercentInstitutions"}
OptionalKeys == NumericKeys \cup {"longName"}

\* Marks a key that the info mapping does not hold.
Absent == <<0, -1>>

\* The mapping that holds the keys of `full` whose value is not Absent.
Present(full) ==
    [k \in {x \in DOMAIN full : x = "longName" \/ full[x] # Absent} |->
        full[k]]

Restrict(f, K) == [k \in K |-> f[k]]

\* The three companies of tests/test_scoring.py and one of extreme values.
Profile(p) ==
    CASE p = "High Growth Tech" ->
            [marketCap |-> <<5, 0>>, longName |-> "High Growth Tech Inc",
             revenueGrowth |-> Frac(80, 100), grossMargins |-> Frac(85, 100),
             priceToSalesTrailing12Months |-> Num(20),
             currentRatio |-> Num(3), debtToEquity |-> Num(10),
             totalCash |-> Num(1000000000), totalDebt |-> Num(100000000),
             heldPercentInsiders |-> Frac(15, 100),
             heldPercentInstitutions |-> Frac(80, 100)]
      [] p = "Value Trap" ->
            [marketCap |-> <<2, 0>>, longName |-> "Value Trap Corp",
             revenueGrowth |-> Frac(5, 100), grossMargins |-> Frac(40, 100),
             priceToSalesTrailing12Months |-> Num(2),
             currentRatio |-> Frac(11, 10), debtToEquity |-> Num(80),
             totalCash |-> Num(100000000), totalDebt |-> Num(500000000),
             heldPercentInsiders |-> Frac(5, 100),
             heldPercentInstitutions |-> Frac(40, 100)]
      [] p = "Balanced Growth" ->
            [marketCap |-> <<10, 0>>, longName |-> "Balanced Growth Ltd",
             revenueGrowth |-> Frac(30, 100), grossMargins |-> Frac(70, 100),
             priceToSalesTrailing12Months |-> Num(10),
             currentRatio |-> Num(2), debtToEquity |-> Num(30),
             totalCash |-> Num(500000000), totalDebt |-> Num(300000000),
             heldPercentInsiders |-> Frac(10, 100),
             heldPercentInstitutions |-> Frac(65, 100)]
      [] p = "Extreme" ->
            [marketCap |-> <<69, 999999999>>, longName |-> "Extreme plc",
             revenueGrowth |-> Frac(-1, 2), grossMargins |-> Frac(-1, 5),
             priceToSalesTrailing12Months |-> Num(-3),
             currentRatio |-> Num(-1), debtToEquity |-> Num(250),
             totalCash |-> Num(-5), totalDebt |-> Num(-7),
             heldPercentInsiders |-> Frac(3, 2),
             heldPercentInstitutions |-> Num(2)]

Profiles == {"High Growth Tech", "Value Trap", "Balanced Growth", "Extreme"}

\* Market caps around both ends of the band, in dollars as <<hi, lo>>.
CapInputs ==
    {<<0, 0>>, <<0, 1>>, <<0, 999999999>>, <<1, 0>>, <<1, 1>>, <<5, 0>>,
     <<69, 999999999>>, <<70, 0>>, <<70, 1>>, <<71, 0>>, <<900, 0>>}

PsInputs == {Absent, Num(-3), Num(0), Frac(1, 2), Num(1), Num(2), Num(20),
             Num(1000000)}
GrowthInputs == {Absent, Frac(-1, 2), Num(0), Frac(1, 20), Frac(3, 10),
                 Frac(1, 2), Frac(4, 5), Num(1000)}
MarginInputs == {Absent, Frac(-1, 5), Num(0), Frac(2, 5), Frac(4, 5),
                 Frac(17, 20), Num(1000)}
CurrentRatioInputs == {Absent, Num(-1), Frac(11, 10), Num(2), Num(3)}
DebtToEquityInputs == {Absent, Num(-50), Num(30), Num(100), Num(250)}
CashInputs == {Absent, Num(100), Num(1000000)}
DebtInputs == {Absent, Num(-7), Num(0), Num(300)}
InsiderInputs == {Absent, Frac(1, 10), Frac(1, 5), Frac(3, 2)}
InstitutionInputs == {Absent, Frac(2, 5), Frac(7, 10), Num(2)}

\* The longest history drawn.
MaxHistLen == 202

\* A history of n days, newest last.  k is a day's distance from the newest
\* day; closes c = <<old, mid, recent, last>> and volumes
\* v = <<old, mid, recent>> give the levels of the days k >= 50,
\* 20 <= k < 50, k < 20 (and the newest close); the day at distance `spike`
\* (none if negative) stands out in both.
MkHist(n, c, v, spike) ==
    [j \in 1..n |->
        LET k == n - j
            bump == IF k = spike THEN 100 ELSE 0
        IN  [Close |-> bump + (IF k = 0 THEN c[4]
                               ELSE IF k < 20 THEN c[3]
                               ELSE IF k < 50 THEN c[2] ELSE c[1]),
             Volume |-> bump + (IF k < 20 THEN v[3]
                                ELSE IF k < 50 THEN v[2] ELSE v[1])]]

CloseLevels == {1, 2, 3}
VolumeLevels == {0, 1, 3}
Spikes == {-1, 0, 19, 20, 49, 50, 199, 200}
CloseShapes == CloseLevels \X CloseLevels \X CloseLevels \X CloseLevels
VolumeShapes == VolumeLevels \X VolumeLevels \X VolumeLevels
FewCloseShapes == {<<1, 1, 1, 1>>, <<1, 3, 3, 2>>, <<3, 1, 1, 2>>, <<2, 1, 1, 3>>}
FewVolumeShapes == {<<1, 1, 1>>, <<0, 0, 3>>, <<3, 1, 3>>, <<1, 3, 0>>}

\* The histories drawn, as <<n, c, v, spike>>: every length with a few
\* shapes, and the lengths around 200 with every shape.
HistoryInputs ==
    ((0..MaxHistLen) \X FewCloseShapes \X {<<1, 3, 0>>} \X {-1})
    \cup ((0..MaxHistLen) \X {<<1, 3, 3, 2>>} \X FewVolumeShapes \X {-1})
    \cup ({200, 201} \X CloseShapes \X {<<1, 1, 1>>} \X Spikes)
    \cup ({200, 201} \X {<<2, 1, 1, 3>>} \X VolumeShapes \X Spikes)

FewHistories ==
    {0, 199, 200} \X {<<1, 3, 3, 2>>, <<2, 1, 1, 3>>}
        \X {<<1, 3, 0>>, <<3, 1, 3>>} \X {-1}

Hist(h) == MkHist(h[1], h[2], h[3], h[4])

Stock(info, info_raises, hist, hist_raises) ==
    [info |-> info, info_raises |-> info_raises,
     hist |-> hist, hist_raises |-> hist_raises]

\* The scores get_rating is tried on: tenths from -5 to 105 and hundredths
\* next to each threshold.
ScoreInputs ==
    {Frac(n, 10) : n \in -50..1050}
    \cup {Frac(100 * t + e, 100) : t \in {50, 60, 70, 80, 90}, e \in -2..2}

-----------------------------------------------------------------------------
(* The scoring engine: one run calls one operation once.                   *)

MockTicker == "DDOG"

BatchIdle ==
    /\ tickers = <<>>
    /\ idx = 0
    /\ results = <<>>
    /\ last_analysis = <<>>
    /\ analysed = <<>>
    /\ stdout = <<>>
    /\ progress_text = <<>>
    /\ session_state = <<>>
    /\ displayed = [kind |-> "none", text |-> "", list |-> <<>>]
    /\ runs = 0

UniverseIdle ==
    /\ qualified_stocks = <<>>
    /\ invalid_tickers = {}
    /\ df = <<>>

OneStock(stock) == [t \in {MockTicker} |-> stock]

InitGetRating ==
    /\ op = "get_rating"
    /\ arg_score \in ScoreInputs
    /\ arg_ticker = MockTicker
    /\ world = <<>>

InitGrowthValue ==
    /\ op = "calculate_growth_value_score"
    /\ arg_score = Num(0)
    /\ arg_ticker = MockTicker
    /\ \E ps \in PsInputs, g \in GrowthInputs, m \in MarginInputs :
         world = OneStock(Stock(
            Present([priceToSalesTrailing12Months |-> ps,
                     revenueGrowth |-> g, grossMargins |-> m]),
            FALSE, <<>>, FALSE))

InitBusinessHealth ==
    /\ op = "calculate_business_health"
    /\ arg_score = Num(0)
    /\ arg_ticker = MockTicker
    /\ \E cr \in CurrentRatioInputs, de \in DebtToEquityInputs,
          cash \in CashInputs, debt \in DebtInputs,
          ins \in InsiderInputs, inst \in InstitutionInputs :
         world = OneStock(Stock(
            Present([currentRatio |-> cr, debtToEquity |-> de,
                     totalCash |-> cash, totalDebt |-> debt,
                     heldPercentInsiders |-> ins,
                     heldPercentInstitutions |-> inst]),
            FALSE, <<>>, FALSE))

InitMarketValidation ==
    /\ op = "calculate_market_validation"
    /\ arg_score = Num(0)
    /\ arg_ticker = MockTicker
    /\ \E h \in HistoryInputs :
         world = OneStock(Stock(<<>>, FALSE, Hist(h), FALSE))

\* analyze_stock on every market cap, with and without a failing collaborator
InitAnalyzeGate ==
    \E p \in Profiles, cap \in CapInputs \cup {Absent, CapNone},
       h \in FewHistories, ir \in BOOLEAN, hr \in BOOLEAN :
         world = OneStock(Stock(
            Present([Profile(p) EXCEPT !.marketCap = cap]), ir, Hist(h), hr))

\* analyze_stock with every subset of the optional keys absent
InitAnalyzeAbsent ==
    \E p \in Profiles, A \in SUBSET OptionalKeys,
       h \in {0, 200} \X {<<1, 3, 3, 2>>} \X {<<1, 3, 0>>} \X {-1} :
         world = OneStock(Stock(
            Restrict(Profile(p), DOMAIN Profile(p) \ A), FALSE, Hist(h), FALSE))

\* analyze_stock with one numeric key present and null
InitAnalyzeNull ==
    \E p \in Profiles, k \in NumericKeys, h \in FewHistories :
         world = OneStock(Stock(
            [Profile(p) EXCEPT ![k] = None], FALSE, Hist(h), FALSE))

\* analyze_stock over values of every sub-score's inputs
InitAnalyzeSweep ==
    \E g \in GrowthInputs, ps \in {Absent, Num(1), Num(20)},
       cr \in {Num(0), Num(3)}, cash \in {Num(0), Num(1000000)},
       ins \in {Num(0), Frac(1, 10), Frac(3, 2)}, h \in FewHistories :
         world = OneStock(Stock(
            Present([marketCap |-> <<5, 0>>,
                     revenueGrowth |-> g, grossMargins |-> g,
                     priceToSalesTrailing12Months |-> ps,
                     currentRatio |-> cr, debtToEquity |-> Absent,
                     totalCash |-> cash, totalDebt |-> Absent,
                     heldPercentInsiders |-> ins,
                     heldPercentInstitutions |-> ins]),
            FALSE, Hist(h), FALSE))

InitAnalyzeStock ==
    /\ op = "analyze_stock"
    /\ arg_score = Num(0)
    /\ arg_ticker = MockTicker
    /\ \/ InitAnalyzeGate
       \/ InitAnalyzeAbsent
       \/ InitAnalyzeNull
       \/ InitAnalyzeSweep

Init ==
    /\ pc = "call"
    /\ analyzer = NewAnalyzer(<<>>)
    /\ ret = PyNone
    /\ calls = <<>>
    /\ rating = ""
    /\ BatchIdle
    /\ UniverseIdle
    /\ \/ InitGetRating
       \/ InitGrowthValue
       \/ InitBusinessHealth
       \/ InitMarketValidation
       \/ InitAnalyzeStock

stock == world[arg_ticker]

GetRating ==
    /\ pc = "call" /\ op = "get_rating"
    /\ rating' = get_rating(arg_score)
    /\ pc' = "done"
    /\ UNCHANGED <<op, world, analyzer, arg_ticker, arg_score, ret, calls, batchVars,
                   universeVars>>

GrowthValue ==
    /\ pc = "call" /\ op = "calculate_growth_value_score"
    /\ ret' = calculate_growth_value_score(stock.info)
    /\ calls' = <<"info">>
    /\ pc' = "done"
    /\ UNCHANGED <<op, world, analyzer, arg_ticker, arg_score, rating, batchVars,
                   universeVars>>

BusinessHealth ==
    /\ pc = "call" /\ op = "calculate_business_health"
    /\ ret' = calculate_business_health(stock.info)
    /\ calls' = <<"info">>
    /\ pc' = "done"
    /\ UNCHANGED <<op, world, analyzer, arg_ticker, arg_score, rating, batchVars,
                   universeVars>>

MarketValidation ==
    /\ pc = "call" /\ op = "calculate_market_validation"
    /\ ret' = calculate_market_validation(stock)
    /\ calls' = <<"history">>
    /\ pc' = "done"
    /\ UNCHANGED <<op, world, analyzer, arg_ticker, arg_score, rating, batchVars,
                   universeVars>>

AnalyzeStock ==
    /\ pc = "call" /\ op = "analyze_stock"
    /\ LET r == analyze_stock(stock, arg_ticker)
       IN  /\ ret' = r.ret
           /\ calls' = r.calls
    /\ analyzer' = SelfAfterAnalyzeStock(analyzer)
    /\ pc' = "done"
    /\ UNCHANGED <<op, world, arg_ticker, arg_score, rating, batchVars,
                   universeVars>>

Next ==
    \/ GetRating
    \/ GrowthValue
    \/ BusinessHealth
    \/ MarketValidation
    \/ AnalyzeStock

Spec == Init /\ [][Next]_vars

-----------------------------------------------------------------------------
(* Properties of the scoring engine, checked under Spec.                   *)

InRange(x) == RLe(Num(0), x) /\ RLe(x, Num(100))

Done(o) == op = o /\ pc = "done"

\* The stock's market cap as analyze_stock reads it (0 when absent).
CapOf(st) == IF "marketCap" \in DOMAIN st.info THEN st.info.marketCap ELSE <<0, 0>>

\* 1,000,000,000 <= m <= 70,000,000,000
InBand(m) == m[1] >= 1 /\ (m[1] < 70 \/ (m[1] = 70 /\ m[2] = 0))

\* Neither collaborator fails and no value present is null.
WellFormed(st) ==
    /\ ~st.info_raises
    /\ ~st.hist_raises
    /\ CapOf(st) # CapNone
    /\ \A k \in NumericKeys \cap DOMAIN st.info : ~IsNone(st.info[k])

\* C1: the composite score of every scored record is
\* 0.20*growth + 0.20*value_alignment + 0.10*margins + 0.15*financial_health
\* + 0.15*insider_confidence + 0.10*momentum + 0.10*volume_trends of the
\* record's component scores, the seven weights sum to 1, and the composite
\* score lies in [0, 100].
C1_CompositeIsWeightedSum ==
    (Done("analyze_stock") /\ IsScored(ret)) =>
        LET c == ret.component_scores
            expected ==
                RAdd(RMul(Frac(20, 100), c.growth),
                RAdd(RMul(Frac(20, 100), c.value_alignment),
                RAdd(RMul(Frac(10, 100), c.margins),
                RAdd(RMul(Frac(15, 100), c.financial_health),
                RAdd(RMul(Frac(15, 100), c.insider_confidence),
                RAdd(RMul(Frac(10, 100), c.momentum),
                     RMul(Frac(10, 100), c.volume_trends)))))))
        IN  /\ ret.composite_score = expected
            /\ RAdd(W("growth"), RAdd(W("value_alignment"), RAdd(W("margins"),
               RAdd(W("financial_health"), RAdd(W("insider_confidence"),
               RAdd(W("momentum"), W("volume_trends"))))))) = Num(1)
            /\ InRange(ret.composite_score)

\* A scored record whose component scores differ from one another and whose
\* composite score is strictly inside (0, 100).
C1_Witness ==
    /\ Done("analyze_stock") /\ IsScored(ret)
    /\ ret.component_scores.growth # ret.component_scores.margins
    /\ ret.component_scores.momentum # ret.component_scores.financial_health
    /\ RLt(Num(0), ret.composite_score)
    /\ RLt(ret.composite_score, Num(100))

\* C2: each of the seven sub-scores the three scoring functions return lies
\* in [0, 100], for negative, zero and very large inputs and every history.
C2_SubScoresInRange ==
    /\ (Done("calculate_growth_value_score") /\ ~ret.raised) =>
            /\ InRange(ret.growth_score)
            /\ InRange(ret.alignment_score)
            /\ InRange(ret.margin_score)
    /\ (Done("calculate_business_health") /\ ~ret.raised) =>
            /\ InRange(ret.financial_score)
            /\ InRange(ret.insider_score)
    /\ (Done("calculate_market_validation") /\ ~ret.raised) =>
            /\ InRange(ret.momentum_score)
            /\ InRange(ret.volume_score)
    /\ (Done("analyze_stock") /\ IsScored(ret)) =>
            \A n \in DOMAIN ret.component_scores :
                InRange(ret.component_scores[n])

\* A negative debt-to-equity and a current ratio above 2 push the raw
\* financial score above 100; the score returned is 100.
C2_Witness ==
    /\ Done("calculate_business_health")
    /\ "debtToEquity" \in DOMAIN stock.info
    /\ RLt(stock.info.debtToEquity, Num(0))
    /\ "currentRatio" \in DOMAIN stock.info
    /\ RGt(stock.info.currentRatio, Num(2))
    /\ ~ret.raised
    /\ ret.financial_score = Num(100)

\* The rating the thresholds give, each with its range.
RatingOf(s) ==
    CASE RGe(s, Num(90)) -> "Strong Buy"
      [] RGe(s, Num(80)) /\ RLt(s, Num(90)) -> "Buy"
      [] RGe(s, Num(70)) /\ RLt(s, Num(80)) -> "Accumulate"
      [] RGe(s, Num(60)) /\ RLt(s, Num(70)) -> "Hold"
      [] RGe(s, Num(50)) /\ RLt(s, Num(60)) -> "Reduce"
      [] RLt(s, Num(50)) -> "Sell"

Rank(r) ==
    CASE r = "Sell" -> 0
      [] r = "Reduce" -> 1
      [] r = "Hold" -> 2
      [] r = "Accumulate" -> 3
      [] r = "Buy" -> 4
      [] r = "Strong Buy" -> 5

\* C3: get_rating gives "Strong Buy" from 90, "Buy" on [80, 90), "Accumulate"
\* on [70, 80), "Hold" on [60, 70), "Reduce" on [50, 60) and "Sell" below 50;
\* it never decreases as the score grows; and the rating of every scored
\* record is the rating of that record's composite score.
C3_RatingSteps ==
    /\ Done("get_rating") =>
            /\ rating = RatingOf(arg_score)
            /\ \A s2 \in ScoreInputs :
                   RLe(arg_score, s2) => Rank(rating) <= Rank(get_rating(s2))
    /\ (Done("analyze_stock") /\ IsScored(ret)) =>
            ret.rating = RatingOf(ret.composite_score)

\* get_rating was called on a threshold itself.
C3_Witness ==
    /\ Done("get_rating")
    /\ arg_score = Num(90)
    /\ rating = "Strong Buy"

\* C4: analyze_stock scores a ticker exactly when its market cap m has
\* 1,000,000,000 <= m <= 70,000,000,000 (an absent market cap counts as 0);
\* for an excluded ticker it returns None, neither an error record nor a
\* scored one, having computed no sub-score and requested no history.
C4_EligibilityGate ==
    Done("analyze_stock") =>
        LET m == CapOf(stock)
        IN  /\ IsScored(ret) => (m # CapNone /\ InBand(m))
            /\ WellFormed(stock) => (IsScored(ret) <=> InBand(m))
            /\ (~stock.info_raises /\ m # CapNone /\ ~InBand(m)) =>
                    /\ ret = PyNone
                    /\ ~IsError(ret) /\ ~IsScored(ret)
                    /\ calls = <<"info">>
            /\ ret = PyNone => ~InBand(m)

\* A ticker one dollar above the band whose history request would fail:
\* None is returned all the same.
C4_Witness ==
    /\ Done("analyze_stock")
    /\ CapOf(stock) = <<70, 1>>
    /\ stock.hist_raises
    /\ ret = PyNone

\* C5: a history of fewer than 200 records gives momentum_score = 50,
\* volume_score = 50, price_vs_ma50 = 0, price_vs_ma200 = 0 and
\* volume_trend = 1 whatever it holds; from 200 records on the values come
\* from the data: momentum is a sum of the 40/40/20 flags, and the two price
\* metrics and the volume trend are the ratios of the last close and of the
\* window means.
C5_HistoryFallback ==
    (Done("calculate_market_validation") /\ ~ret.raised) =>
        LET h == stock.hist
            n == Len(h)
            cur == Num(h[n].Close)
            ma50 == TailMean(h, "Close", 50)
            ma200 == TailMean(h, "Close", 200)
            old == RangeMean(h, "Volume", 50, 20)
        IN  /\ n < 200 =>
                /\ ret.momentum_score = Num(50)
                /\ ret.volume_score = Num(50)
                /\ ret.metrics.price_vs_ma50 = Num(0)
                /\ ret.metrics.price_vs_ma200 = Num(0)
                /\ ret.metrics.volume_trend = Num(1)
            /\ n >= 200 =>
                /\ ret.momentum_score \in {Num(0), Num(20), Num(40), Num(60),
                                           Num(80), Num(100)}
                /\ ret.metrics.price_vs_ma50 =
                       RMul(RSub(RDiv(cur, ma50), Num(1)), Num(100))
                /\ ret.metrics.price_vs_ma200 =
                       RMul(RSub(RDiv(cur, ma200), Num(1)), Num(100))
                /\ RGt(old, Num(0)) =>
                       ret.metrics.volume_trend =
                           RDiv(TailMean(h, "Volume", 20), old)

\* 199 records whose closes and volumes are not flat, answered by the
\* fallback.
C5_Witness ==
    /\ Done("calculate_market_validation")
    /\ Len(stock.hist) = 199
    /\ stock.hist[199].Close # stock.hist[1].Close
    /\ stock.hist[199].Volume # stock.hist[150].Volume
    /\ ret.momentum_score = Num(50)
    /\ ret.metrics.volume_trend = Num(1)

\* The defaults of the optional keys.
Defaults(t) ==
    [priceToSalesTrailing12Months |-> Num(0), revenueGrowth |-> Num(0),
     grossMargins |-> Num(0), currentRatio |-> Num(1),
     debtToEquity |-> Num(0), totalCash |-> Num(0), totalDebt |-> Num(1),
     heldPercentInsiders |-> Num(0), heldPercentInstitutions |-> Num(0),
     longName |-> t]

\* The stock with every absent optional key set to its default.
WithDefaults(st, t) ==
    [st EXCEPT !.info =
        [k \in DOMAIN st.info \cup OptionalKeys |->
            IF k \in DOMAIN st.info THEN st.info[k] ELSE Defaults(t)[k]]]

\* C7: with the market cap in band, whichever optional keys are absent,
\* analyze_stock returns a scored record and no error record, and its name
\* and sub-scores are those obtained with each absent key replaced by its
\* default.
C7_AbsentIsDefault ==
    (Done("analyze_stock") /\ WellFormed(stock) /\ InBand(CapOf(stock))) =>
        LET filled == analyze_stock(WithDefaults(stock, arg_ticker), arg_ticker).ret
        IN  /\ IsScored(ret) /\ ~IsError(ret)
            /\ IsScored(filled)
            /\ ret.component_scores = filled.component_scores
            /\ ret.composite_score = filled.composite_score
            /\ ret.name = filled.name

\* Every optional key is absent and the record is scored.
C7_Witness ==
    /\ Done("analyze_stock")
    /\ DOMAIN stock.info = {"marketCap"}
    /\ IsScored(ret)
    /\ ret.name = arg_ticker
    /\ ret.component_scores.financial_health = Num(60)

-----------------------------------------------------------------------------
(* The batch callers: analyze_universe and scan_multiple_stocks            *)
(* (analyzer.py) and the dashboard's main (app.py).  One step of a loop    *)
(* analyses one ticker.                                                    *)

\* The longest ticker sequence drawn, and the most runs of the dashboard
\* script (Streamlit runs main again on every interaction).
MaxTickers == 3
MaxRuns == 2

\* The market the batch runs see: two companies that are scored, one below
\* the band, and one for each way of failing.
BatchTickers == {"HGT", "VT", "SMALL", "NOINFO", "NOHIST", "NULL"}

BatchWorld ==
    [t \in BatchTickers |->
        CASE t = "HGT" ->
                Stock(Profile("High Growth Tech"), FALSE,
                      MkHist(200, <<1, 2, 3, 3>>, <<1, 1, 3>>, -1), FALSE)
          [] t = "VT" ->
                Stock(Profile("Value Trap"), FALSE, <<>>, FALSE)
          [] t = "SMALL" ->
                Stock([Profile("Balanced Growth") EXCEPT
                            !.marketCap = <<0, 999999999>>],
                      FALSE, <<>>, TRUE)
          [] t = "NOINFO" ->
                Stock(Profile("Balanced Growth"), TRUE, <<>>, FALSE)
          [] t = "NOHIST" ->
                Stock(Profile("Balanced Growth"), FALSE, <<>>, TRUE)
          [] t = "NULL" ->
                Stock([Profile("Balanced Growth") EXCEPT !.debtToEquity = None],
                      FALSE, <<>>, FALSE)]

SeqsUpTo(S, n) == UNION {[1..k -> S] : k \in 0..n}

KeepTruthy(a) == a # PyNone

\* `analysis and 'composite_score' in analysis`
Keep(a) == a # PyNone /\ IsScored(a)

\* The list s, sorted by composite score descending, with x put in: after
\* every record whose score is at least its own (sorted is stable).
InsertDesc(s, x) ==
    LET n == Cardinality({j \in 1..Len(s) :
                            RGe(s[j].composite_score, x.composite_score)})
    IN  SubSeq(s, 1, n) \o <<x>> \o SubSeq(s, n + 1, Len(s))

\* sorted(rs, key=lambda x: x['composite_score'], reverse=True)
RECURSIVE SortedByScore(_)
SortedByScore(rs) ==
    IF rs = <<>> THEN <<>>
    ELSE InsertDesc(SortedByScore(SubSeq(rs, 1, Len(rs) - 1)), rs[Len(rs)])

Line(text, t, n, total) == [text |-> text, ticker |-> t, n |-> n, total |-> total]

Shown(kind, text, list) == [kind |-> kind, text |-> text, list |-> list]

\* display_results(results): a table of the results in the order given.
display_results(rs) ==
    IF rs = <<>> THEN Shown("warning", "No results to display", <<>>)
    ELSE Shown("results", "All Results", rs)

InitBatch ==
    /\ pc = "call"
    /\ op \in {"analyze_universe", "scan_multiple_stocks", "main"}
    /\ world = BatchWorld
    /\ tickers \in SeqsUpTo(BatchTickers, MaxTickers)
    /\ analyzer = NewAnalyzer(tickers)
    /\ ret = PyNone
    /\ arg_ticker = MockTicker /\ arg_score = Num(0)
    /\ rating = "" /\ calls = <<>>
    /\ idx = 0 /\ results = <<>> /\ last_analysis = <<>> /\ analysed = <<>>
    /\ stdout = <<>> /\ progress_text = <<>>
    /\ session_state = <<>> /\ displayed = Shown("none", "", <<>>)
    /\ runs = 0
    /\ UniverseIdle

\* results = []; total_stocks = len(self.universe)
AnalyzeUniverseStart ==
    /\ pc = "call" /\ op = "analyze_universe"
    /\ results' = <<>> /\ idx' = 0
    /\ pc' = "loop"
    /\ UNCHANGED <<op, world, analyzer, ret, scoreVars, tickers, last_analysis, analysed,
                   stdout, progress_text, session_state, displayed, runs,
                   universeVars>>

\* one turn of `for idx, row in self.universe.iterrows()`
AnalyzeUniverseStep ==
    /\ pc = "loop" /\ op = "analyze_universe"
    /\ idx < Len(tickers)
    /\ LET t == tickers[idx + 1]
           a == analyze_stock(world[t], t).ret
       IN  /\ stdout' = Append(stdout, Line("Analyzing", t, idx + 1, Len(tickers)))
           /\ last_analysis' = a
           /\ analysed' = Append(analysed, t)
           /\ results' = IF Keep(a) THEN Append(results, a) ELSE results
    /\ idx' = idx + 1
    /\ UNCHANGED <<op, world, analyzer, pc, ret, scoreVars, tickers, progress_text,
                   session_state, displayed, runs, universeVars>>

AnalyzeUniverseReturn ==
    /\ pc = "loop" /\ op = "analyze_universe"
    /\ idx = Len(tickers)
    /\ ret' = SortedByScore(results)
    /\ pc' = "done"
    /\ UNCHANGED <<op, world, analyzer, scoreVars, batchVars, universeVars>>

ScanStart ==
    /\ pc = "call" /\ op = "scan_multiple_stocks"
    /\ results' = <<>> /\ idx' = 0
    /\ pc' = "loop"
    /\ UNCHANGED <<op, world, analyzer, ret, scoreVars, tickers, last_analysis, analysed,
                   stdout, progress_text, session_state, displayed, runs,
                   universeVars>>

\* one turn of `for ticker in tickers`
ScanStep ==
    /\ pc = "loop" /\ op = "scan_multiple_stocks"
    /\ idx < Len(tickers)
    /\ LET t == tickers[idx + 1]
           a == analyze_stock(world[t], t).ret
       IN  /\ last_analysis' = a
           /\ analysed' = Append(analysed, t)
           /\ results' = IF Keep(a) THEN Append(results, a) ELSE results
    /\ idx' = idx + 1
    /\ UNCHANGED <<op, world, analyzer, pc, ret, scoreVars, tickers, stdout,
                   progress_text, session_state, displayed, runs, universeVars>>

ScanReturn ==
    /\ pc = "loop" /\ op = "scan_multiple_stocks"
    /\ idx = Len(tickers)
    /\ ret' = SortedByScore(results)
    /\ pc' = "done"
    /\ UNCHANGED <<op, world, analyzer, scoreVars, batchVars, universeVars>>

\* main, up to the loop: an empty universe ends the run; results kept in
\* the session state skip the analysis.
MainStart ==
    /\ pc = "call" /\ op = "main"
    /\ runs' = runs + 1
    /\ results' = <<>> /\ idx' = 0 /\ analysed' = <<>> /\ last_analysis' = <<>>
    /\ IF tickers = <<>>
       THEN /\ displayed' = Shown("error",
                    "No universe file found. Please run the universe builder first.",
                    <<>>)
            /\ pc' = "done"
       ELSE /\ displayed' = Shown("none", "", <<>>)
            /\ pc' = IF "analysis_results" \in DOMAIN session_state
                     THEN "display" ELSE "loop"
    /\ UNCHANGED <<op, world, analyzer, ret, scoreVars, tickers, stdout, progress_text,
                   session_state, universeVars>>

\* one turn of `for i, ticker in enumerate(universe['ticker'])`
MainStep ==
    /\ pc = "loop" /\ op = "main"
    /\ idx < Len(tickers)
    /\ LET t == tickers[idx + 1]
           a == analyze_stock(world[t], t).ret
       IN  /\ progress_text' = Line("Analyzing", t, idx + 1, Len(tickers))
           /\ last_analysis' = a
           /\ analysed' = Append(analysed, t)
           /\ results' = IF Keep(a) THEN Append(results, a) ELSE results
    /\ idx' = idx + 1
    /\ UNCHANGED <<op, world, analyzer, pc, ret, scoreVars, tickers, stdout,
                   session_state, displayed, runs, universeVars>>

\* st.session_state.analysis_results = results
MainStore ==
    /\ pc = "loop" /\ op = "main"
    /\ idx = Len(tickers)
    /\ progress_text' = Line("Analysis complete!", "", 0, 0)
    /\ session_state' = [analysis_results |-> results]
    /\ pc' = "display"
    /\ UNCHANGED <<op, world, analyzer, ret, scoreVars, tickers, idx, results,
                   last_analysis, analysed, stdout, displayed, runs,
                   universeVars>>

MainDisplay ==
    /\ pc = "display" /\ op = "main"
    /\ displayed' =
            IF session_state.analysis_results # <<>>
            THEN display_results(session_state.analysis_results)
            ELSE Shown("error", "No valid results found. Check universe data.",
                       <<>>)
    /\ pc' = "done"
    /\ UNCHANGED <<op, world, analyzer, ret, scoreVars, tickers, idx, results,
                   last_analysis, analysed, stdout, progress_text,
                   session_state, runs, universeVars>>

\* An interaction with the page runs the script again; the session state
\* is kept.
MainRerun ==
    /\ pc = "done" /\ op = "main"
    /\ runs < MaxRuns
    /\ pc' = "call"
    /\ UNCHANGED <<op, world, analyzer, ret, scoreVars, batchVars, universeVars>>

\* The refresh button: the kept results are deleted and the script runs
\* again.
MainRefresh ==
    /\ pc = "done" /\ op = "main"
    /\ runs < MaxRuns
    /\ session_state' = <<>>
    /\ pc' = "call"
    /\ UNCHANGED <<op, world, analyzer, ret, scoreVars, tickers, idx, results,
                   last_analysis, analysed, stdout, progress_text, displayed,
                   runs, universeVars>>

NextBatch ==
    \/ AnalyzeUniverseStart
    \/ AnalyzeUniverseStep
    \/ AnalyzeUniverseReturn
    \/ ScanStart
    \/ ScanStep
    \/ ScanReturn
    \/ MainStart
    \/ MainStep
    \/ MainStore
    \/ MainDisplay
    \/ MainRerun
    \/ MainRefresh

SpecBatch == InitBatch /\ [][NextBatch]_vars

-----------------------------------------------------------------------------
(* Properties of the batch callers, checked under SpecBatch.               *)

\* Analysing ticker t fails: reading its info fails, or it is in band and
\* its history request or one of the scoring steps fails.
Fails(t) ==
    LET st == world[t]
    IN  \/ st.info_raises
        \/ /\ InBand(CapOf(st))
           /\ \/ st.hist_raises
              \/ calculate_growth_value_score(st.info).raised
              \/ calculate_business_health(st.info).raised

\* Ticker t is in band and analysing it does not fail.
Succeeds(t) == ~world[t].info_raises /\ InBand(CapOf(world[t])) /\ ~Fails(t)

CountOf(seq, x) == Cardinality({j \in DOMAIN seq : seq[j] = x})

TickersOf(rs) == [j \in DOMAIN rs |-> rs[j].ticker]

InBatch == op \in {"analyze_universe", "scan_multiple_stocks", "main"}

\* C6: a ticker whose analysis fails gives a record of the ticker and an
\* error and no composite score; the failure does not stop the loop: when
\* analyze_universe or scan_multiple_stocks returns, every ticker of the
\* input has been analysed, in order, and the list returned holds exactly
\* the records of the tickers that are in band and did not fail, with no
\* error record and no None in it.
C6_FailureContained ==
    InBatch =>
        /\ (idx > 0 /\ Len(analysed) = idx /\ Fails(analysed[idx])) =>
                /\ DOMAIN last_analysis = {"ticker", "error"}
                /\ last_analysis.ticker = analysed[idx]
                /\ ~IsScored(last_analysis)
        /\ \A j \in DOMAIN results :
                IsScored(results[j]) /\ ~IsError(results[j])
        /\ (pc = "done" /\ op \in {"analyze_universe", "scan_multiple_stocks"}) =>
                /\ analysed = tickers
                /\ \A j \in DOMAIN ret :
                        /\ ret[j] # PyNone
                        /\ IsScored(ret[j]) /\ ~IsError(ret[j])
                        /\ Succeeds(ret[j].ticker)
                        /\ ret[j] = analyze_stock(world[ret[j].ticker],
                                                  ret[j].ticker).ret
                /\ \A t \in BatchTickers :
                        CountOf(TickersOf(ret), t) =
                            IF Succeeds(t) THEN CountOf(tickers, t) ELSE 0

\* The first ticker's info cannot be read, a later one's history cannot,
\* and the ticker between them is returned.
C6_Witness ==
    /\ op = "scan_multiple_stocks" /\ pc = "done"
    /\ tickers = <<"NOINFO", "HGT", "NOHIST">>
    /\ Len(ret) = 1
    /\ ret[1].ticker = "HGT"

IsSortedDesc(rs) ==
    \A j \in 1..(Len(rs) - 1) :
        RGe(rs[j].composite_score, rs[j + 1].composite_score)

\* C8: the list analyze_universe returns, the list scan_multiple_stocks
\* returns, and the list main stores in analysis_results and hands to
\* display_results are each ordered by composite_score descending.
C8_SortedDescending ==
    /\ (pc = "done" /\ op \in {"analyze_universe", "scan_multiple_stocks"}) =>
            IsSortedDesc(ret)
    /\ (op = "main" /\ "analysis_results" \in DOMAIN session_state) =>
            IsSortedDesc(session_state.analysis_results)
    /\ (op = "main" /\ displayed.kind = "results") =>
            IsSortedDesc(displayed.list)

\* The part of C8 about the two analyzer methods alone.
C8_AnalyzerSortedDescending ==
    (pc = "done" /\ op \in {"analyze_universe", "scan_multiple_stocks"}) =>
        IsSortedDesc(ret)

\* The number of input tickers that were out of band or failed.
Dropped == Cardinality({j \in DOMAIN tickers : ~Succeeds(tickers[j])})

\* Every number the batch operation put out besides the records themselves:
\* those of the lines printed and of the progress text left on the page.
NumbersPutOut ==
    UNION {{stdout[j].n, stdout[j].total} : j \in DOMAIN stdout}
    \cup (IF progress_text # <<>> /\ progress_text.text = "Analyzing"
          THEN {progress_text.n, progress_text.total} ELSE {})

\* C9: when a batch operation has processed tickers of which some were out
\* of band or failed, its output holds the count of those tickers.
C9_DroppedCountReported ==
    (InBatch /\ pc = "done" /\ Dropped > 0) => Dropped \in NumbersPutOut

-----------------------------------------------------------------------------
(* UniverseBuilder (universe_builder.py): filter_stock and build_universe.  *)
(* One step of build_universe's loop filters one known ticker.             *)

ub_min_market_cap_half == <<0, 500000000>>

\* __init__: the builder's own band and volume floor.
ub_min_market_cap == <<1, 0>>
ub_max_market_cap == <<70, 0>>
min_volume == 100000

\* The dash of "Software--Application" stands for the source's long dash.
relevant_industries ==
    {"Software", "Technology", "Cloud Computing", "Internet Services",
     "Information Technology", "Software--Application",
     "Software--Infrastructure", "Computer Hardware", "Semiconductors",
     "Information Technology Services"}

known_tickers ==
    <<"DDOG", "NET", "CFLT", "MDB", "SNOW", "PLTR", "CRWD", "ZS", "PANW",
      "DOCN", "S", "AI", "PATH", "U", "GTLB", "HCAT", "API", "DT", "BILL",
      "NCNO", "FRSH", "APP", "SUMO", "ESTC", "MGNI", "TTD", "TWLO", "DOMO",
      "PD", "FROG", "APPN", "COUP", "AVLR", "NTNX", "TEAM", "OKTA", "DOCU",
      "SMAR", "DBX", "BOX", "NOW", "WDAY", "ZI", "DAVA", "NABL", "BL",
      "PAYC", "PCTY", "RNG", "NICE", "SMCI", "NVDA", "AMD", "AMAT", "LRCX",
      "KLAC", "SNPS", "CDNS", "WOLF", "POWI", "MPWR", "LSCC", "DIOD",
      "SLAB", "MRVL", "SWKS", "ENTG", "CCMP", "ONTO", "TER", "ACLS",
      "MTSI", "ADI", "NXPI", "CRWD", "ZS", "PANW", "FTNT", "CYBR", "RPD",
      "S", "TENB", "SCWX", "VRNS", "SAIL", "OCFT", "SSTI", "KNBE", "RDWR",
      "COIN", "HOOD", "UPST", "AFRM", "SOFI", "MQ", "PAYO", "FLYW", "TOST",
      "DLO", "AVDX", "PSFE", "RELY", "AI", "PLTR", "SNOW", "TDC", "VRNS",
      "SPSC", "NEWR", "BAND", "SPLK", "PLAN", "DOMO", "ALTR", "BIGB",
      "GTLB", "TWLO", "FSLY", "CFLT", "DDOG", "NET", "API", "PATH", "FORG",
      "ESTC", "NEWR", "APPN", "PD", "FROG", "WDAY", "NOW", "TEAM", "COUP",
      "BILL", "PCTY", "PAYC", "CSGS", "MANH", "AZPN", "PEGA", "PRGS", "BL",
      "ADBE", "CRM", "INTU", "IONQ", "RGTI", "ARQQ", "KVUE", "DNA", "HLLY",
      "ACHR", "GROY", "ALIT", "OUST", "MAPS", "MKFG">>

InKnownTickers(t) == \E j \in DOMAIN known_tickers : known_tickers[j] = t

\* `ind in str(text)`: ind is a substring of text, for the texts drawn.
IsSubstring(ind, text) ==
    \/ ind = text
    \/ <<ind, text>> \in {<<"Software", "Software--Application">>,
                          <<"Software", "Software--Infrastructure">>,
                          <<"Technology", "Information Technology">>,
                          <<"Technology", "Information Technology Services">>,
                          <<"Information Technology",
                            "Information Technology Services">>}

\* What yfinance answers to one call of filter_stock.
FilterCase(c) ==
    CASE c = "mid" ->
            Stock([marketCap |-> <<5, 0>>, averageVolume |-> 2000000,
                   industry |-> "Software--Application",
                   sector |-> "Technology", longName |-> "Mid Cap Inc",
                   revenueGrowth |-> Frac(3, 10), grossMargins |-> Frac(7, 10),
                   priceToSalesTrailing12Months |-> Num(10),
                   currentPrice |-> Num(50)], FALSE, <<>>, FALSE)
      [] c = "large" ->
            Stock([marketCap |-> <<20, 0>>, averageVolume |-> 100000,
                   industry |-> "Biotechnology", sector |-> "Healthcare"],
                  FALSE, <<>>, FALSE)
      [] c = "below" ->
            Stock([marketCap |-> <<0, 999999999>>, averageVolume |-> 2000000,
                   industry |-> "Semiconductors", sector |-> "Technology"],
                  FALSE, <<>>, FALSE)
      [] c = "thin" ->
            Stock([marketCap |-> <<5, 0>>, averageVolume |-> 99999,
                   industry |-> "Software--Application",
                   sector |-> "Technology"], FALSE, <<>>, FALSE)
      [] c = "nocap" ->
            Stock([averageVolume |-> 2000000, sector |-> "Technology"],
                  FALSE, <<>>, FALSE)
      [] c = "raises" ->
            Stock(<<>>, TRUE, <<>>, FALSE)

FilterCases == {"mid", "large", "below", "thin", "nocap", "raises"}

\* The known tickers whose market data varies from call to call; every
\* other known ticker is below the band.
CandidateTickers == {"NVDA", "CRWD", "MKFG"}

CasesFor(t) == IF t \in CandidateTickers THEN FilterCases ELSE {"below"}

Filtered(row, invalid) == [row |-> row, invalid |-> invalid]

\* filter_stock: the row of a ticker that meets the criteria or None, and
\* whether the ticker was added to invalid_tickers.
filter_stock(st, t) ==
    LET info == st.info
        market_cap == Get(info, "marketCap", <<0, 0>>)
        avg_volume == Get(info, "averageVolume", 0)
        industry == Get(info, "industry", "")
        sector == Get(info, "sector", "")
        is_tech ==
            \/ \E ind \in relevant_industries : IsSubstring(ind, industry)
            \/ \E ind \in relevant_industries : IsSubstring(ind, sector)
            \/ IsSubstring("Technology", sector)
            \/ InKnownTickers(t)
    IN  IF st.info_raises THEN Filtered(PyNone, TRUE)
        ELSE IF DOMAIN info = {} \/ "marketCap" \notin DOMAIN info
        THEN Filtered(PyNone, TRUE)
        \* a null market cap raises in the comparison: except branch
        ELSE IF market_cap = CapNone THEN Filtered(PyNone, TRUE)
        ELSE IF /\ ~CapLt(market_cap, ub_min_market_cap)
                /\ ~CapLt(ub_max_market_cap, market_cap)
                /\ avg_volume >= min_volume
                /\ is_tech
        THEN Filtered(
                [ticker |-> t,
                 name |-> Get(info, "longName", t),
                 market_cap |-> market_cap,  \* billions, lo as 9 decimals
                 industry |-> industry,
                 sector |-> sector,
                 avg_volume |-> avg_volume,
                 revenue_growth |->
                    IF Truthy(Get(info, "revenueGrowth", None))
                    THEN RMul(Get(info, "revenueGrowth", Num(0)), Num(100))
                    ELSE None,
                 gross_margins |->
                    IF Truthy(Get(info, "grossMargins", None))
                    THEN RMul(Get(info, "grossMargins", Num(0)), Num(100))
                    ELSE None,
                 ps_ratio |-> Get(info, "priceToSalesTrailing12Months", None),
                 is_known_ticker |-> InKnownTickers(t),
                 price |-> Get(info, "currentPrice",
                               Get(info, "regularMarketPrice", None))],
                FALSE)
        ELSE Filtered(PyNone, FALSE)

\* pd.cut(revenue_growth, bins=[-inf, 0, 20, 40, inf], labels=[...])
growth_category(g) ==
    IF IsNone(g) THEN "NaN"
    ELSE IF RLe(g, Num(0)) THEN "Negative"
    ELSE IF RLe(g, Num(20)) THEN "Low"
    ELSE IF RLe(g, Num(40)) THEN "Medium"
    ELSE "High"

WithCategory(row) ==
    [k \in DOMAIN row \cup {"growth_category"} |->
        IF k = "growth_category" THEN growth_category(row.revenue_growth)
        ELSE row[k]]

\* The orders df.sort_values('market_cap', ascending=False) may give the
\* rows: rows of equal market cap come in an order the sort does not fix.
SortedByCap(rows) ==
    {[j \in DOMAIN rows |-> rows[p[j]]] :
        p \in {q \in [DOMAIN rows -> DOMAIN rows] :
                 /\ \A a, b \in DOMAIN rows : a # b => q[a] # q[b]
                 /\ \A a \in 1..(Len(rows) - 1) :
                      ~CapLt(rows[q[a]].market_cap, rows[q[a + 1]].market_cap)}}

InitUniverse ==
    /\ pc = "loop"
    /\ op = "build_universe"
    /\ world = <<>>
    /\ analyzer = NewAnalyzer(<<>>)
    /\ ret = PyNone
    /\ arg_ticker = MockTicker /\ arg_score = Num(0)
    /\ rating = "" /\ calls = <<>>
    /\ tickers = known_tickers
    /\ idx = 0 /\ results = <<>> /\ last_analysis = <<>> /\ analysed = <<>>
    /\ stdout = <<Line("Processing known tickers first...", "", 0, 0)>>
    /\ progress_text = <<>>
    /\ session_state = <<>> /\ displayed = Shown("none", "", <<>>)
    /\ runs = 0
    /\ UniverseIdle

\* one turn of `for i, ticker in enumerate(self.known_tickers)`
BuildUniverseStep ==
    /\ pc = "loop" /\ op = "build_universe"
    /\ idx < Len(known_tickers)
    /\ LET t == known_tickers[idx + 1]
       IN  \E c \in CasesFor(t) :
             LET r == filter_stock(FilterCase(c), t)
                 progress ==
                    IF idx % 10 = 0
                    THEN <<Line("Processing known ticker", "", idx + 1,
                                Len(known_tickers))>>
                    ELSE <<>>
                 failure ==
                    IF FilterCase(c).info_raises
                    THEN <<Line("Error filtering", t, 0, 0)>>
                    ELSE <<>>
             IN  /\ stdout' = stdout \o progress \o failure
                 /\ qualified_stocks' =
                        IF r.row # PyNone THEN Append(qualified_stocks, r.row)
                        ELSE qualified_stocks
                 /\ invalid_tickers' =
                        IF r.invalid THEN invalid_tickers \cup {t}
                        ELSE invalid_tickers
    /\ idx' = idx + 1
    /\ UNCHANGED <<op, world, analyzer, pc, ret, scoreVars, tickers, results,
                   last_analysis, analysed, progress_text, session_state,
                   displayed, runs, df>>

\* the table is built, sorted by market cap, and returned with the invalid
\* tickers
BuildUniverseReturn ==
    /\ pc = "loop" /\ op = "build_universe"
    /\ idx = Len(known_tickers)
    /\ df' \in SortedByCap([j \in DOMAIN qualified_stocks |->
                                WithCategory(qualified_stocks[j])])
    /\ ret' = [df |-> df', invalid_tickers |-> invalid_tickers]
    /\ pc' = "done"
    /\ UNCHANGED <<op, world, analyzer, scoreVars, batchVars, qualified_stocks,
                   invalid_tickers>>

NextUniverse ==
    \/ BuildUniverseStep
    \/ BuildUniverseReturn

SpecUniverse == InitUniverse /\ [][NextUniverse]_vars

\* C10: in the table build_universe returns, every ticker symbol appears in
\* at most one row.
C10_UniqueTickers ==
    (op = "build_universe" /\ pc = "done") =>
        \A a, b \in DOMAIN df : a # b => df[a].ticker # df[b].ticker

-----------------------------------------------------------------------------
(* One analyzer called again and again: analyze_stock on tickers chosen    *)
(* freely, the collaborator's data staying what it is.                     *)

\* The most calls made on one analyzer.
MaxCalls == 3

InitSession ==
    /\ pc = "call"
    /\ op = "analyze_stock_repeated"
    /\ world = BatchWorld
    /\ tickers \in {<<>>, <<"HGT", "VT">>}
    /\ analyzer = NewAnalyzer(tickers)
    /\ ret = PyNone
    /\ arg_ticker = MockTicker /\ arg_score = Num(0)
    /\ rating = "" /\ calls = <<>>
    /\ idx = 0 /\ results = <<>> /\ last_analysis = <<>> /\ analysed = <<>>
    /\ stdout = <<>> /\ progress_text = <<>>
    /\ session_state = <<>> /\ displayed = Shown("none", "", <<>>)
    /\ runs = 0
    /\ UniverseIdle

\* analyzer.analyze_stock(t); `results` keeps every value returned
SessionCall ==
    /\ pc = "call" /\ op = "analyze_stock_repeated"
    /\ idx < MaxCalls
    /\ \E t \in BatchTickers :
         LET r == analyze_stock(world[t], t)
         IN  /\ arg_ticker' = t
             /\ ret' = r.ret
             /\ calls' = r.calls
             /\ last_analysis' = r.ret
             /\ analysed' = Append(analysed, t)
             /\ results' = Append(results, r.ret)
    /\ analyzer' = SelfAfterAnalyzeStock(analyzer)
    /\ idx' = idx + 1
    /\ UNCHANGED <<op, world, pc, arg_score, rating, tickers, stdout,
                   progress_text, session_state, displayed, runs,
                   universeVars>>

NextSession == SessionCall

SpecSession == InitSession /\ [][NextSession]_vars

-----------------------------------------------------------------------------
(* The three scoring functions, each called alone on its own inputs.       *)

InitCall ==
    /\ pc = "call"
    /\ analyzer = NewAnalyzer(<<>>)
    /\ ret = PyNone
    /\ calls = <<>>
    /\ rating = ""
    /\ arg_score = Num(0)
    /\ arg_ticker = MockTicker
    /\ BatchIdle
    /\ UniverseIdle

\* calculate_growth_value_score on every combination of price-to-sales,
\* growth and margin, a growth of one percent among them.
InitGrowthValueOnly ==
    /\ InitCall
    /\ op = "calculate_growth_value_score"
    /\ \E ps \in PsInputs, g \in GrowthInputs \cup {Frac(1, 100)},
          m \in MarginInputs :
         world = OneStock(Stock(
            Present([priceToSalesTrailing12Months |-> ps,
                     revenueGrowth |-> g, grossMargins |-> m]),
            FALSE, <<>>, FALSE))

NextGrowthValueOnly == GrowthValue

SpecGrowthValue == InitGrowthValueOnly /\ [][NextGrowthValueOnly]_vars

\* x brought into [0, 100].
Clamped(x) ==
    IF RLt(x, Num(0)) THEN Num(0) ELSE IF RGt(x, Num(100)) THEN Num(100) ELSE x

\* The value of a key as a number: `otherwise` when the key is absent.
ValueOr(info, key, otherwise) ==
    IF key \in DOMAIN info THEN info[key] ELSE otherwise

\* C12: with g the revenue growth and m the gross margin as percentages and
\* ps the price-to-sales ratio (each 0 when absent), the function returns
\* growth_score = clamp(2g), alignment_score = clamp(100 * (g/2) / max(ps, 1))
\* and margin_score = clamp(1.25m); for ps <= 1 the alignment score is
\* clamp(50g) whatever ps is; for g <= 0 growth and alignment are 0; growth
\* 0.80, margins 0.85 and price-to-sales 20 give 100, 100, 100.
C12_GrowthValueFormulas ==
    (Done("calculate_growth_value_score") /\ ~ret.raised) =>
        LET info == stock.info
            g == RMul(ValueOr(info, "revenueGrowth", Num(0)), Num(100))
            m == RMul(ValueOr(info, "grossMargins", Num(0)), Num(100))
            ps == ValueOr(info, "priceToSalesTrailing12Months", Num(0))
            floor == IF RLt(ps, Num(1)) THEN Num(1) ELSE ps
        IN  /\ ret.growth_score = Clamped(RMul(Num(2), g))
            /\ ret.alignment_score =
                    Clamped(RDiv(RMul(Num(100), RMul(Frac(1, 2), g)), floor))
            /\ ret.margin_score = Clamped(RMul(Frac(5, 4), m))
            /\ RLe(ps, Num(1)) =>
                    ret.alignment_score = Clamped(RMul(Num(50), g))
            /\ RLe(g, Num(0)) =>
                    ret.growth_score = Num(0) /\ ret.alignment_score = Num(0)
            /\ (g = Num(80) /\ m = Num(85) /\ ps = Num(20)) =>
                    /\ ret.growth_score = Num(100)
                    /\ ret.alignment_score = Num(100)
                    /\ ret.margin_score = Num(100)

\* A price-to-sales ratio of one half and a growth of one percent: the
\* alignment score is 50, as it is for a ratio of 1.
C12_Witness ==
    /\ Done("calculate_growth_value_score")
    /\ "priceToSalesTrailing12Months" \in DOMAIN stock.info
    /\ stock.info.priceToSalesTrailing12Months = Frac(1, 2)
    /\ "revenueGrowth" \in DOMAIN stock.info
    /\ stock.info.revenueGrowth = Frac(1, 100)
    /\ ret.alignment_score = Num(50)
    /\ ret.growth_score = Num(2)

-----------------------------------------------------------------------------
(* Null values, checked under Spec.                                        *)

\* The optional numeric keys the stock's info holds with a null value.
NullKeys(st) == {k \in NumericKeys \cap DOMAIN st.info : IsNone(st.info[k])}

\* The stock with the keys K taken out of its info.
WithoutKeys(st, K) == [st EXCEPT !.info = Restrict(st.info, DOMAIN st.info \ K)]

\* C13: for an in-band ticker whose collaborators do not fail, an optional
\* numeric field that is present and null gives the record that the same
\* info without that field gives, and never an error record.
C13_NullIsAbsent ==
    (/\ Done("analyze_stock")
     /\ ~stock.info_raises /\ ~stock.hist_raises
     /\ CapOf(stock) # CapNone /\ InBand(CapOf(stock))
     /\ NullKeys(stock) # {}) =>
        /\ ~IsError(ret)
        /\ ret = analyze_stock(WithoutKeys(stock, NullKeys(stock)),
                               arg_ticker).ret

\* The part of C13 that the code keeps: a null revenueGrowth or grossMargins
\* is read through a truth test and scores as an absent one.
C13_NullGrowthOrMarginIsAbsent ==
    (/\ Done("analyze_stock")
     /\ ~stock.info_raises /\ ~stock.hist_raises
     /\ CapOf(stock) # CapNone /\ InBand(CapOf(stock))
     /\ NullKeys(stock) # {}
     /\ NullKeys(stock) \subseteq {"revenueGrowth", "grossMargins"}) =>
        /\ IsScored(ret)
        /\ ret = analyze_stock(WithoutKeys(stock, NullKeys(stock)),
                               arg_ticker).ret

-----------------------------------------------------------------------------
(* calculate_market_validation called alone on every history drawn.        *)

InitMarketValidationOnly ==
    /\ InitCall
    /\ op = "calculate_market_validation"
    /\ \E h \in HistoryInputs :
         world = OneStock(Stock(<<>>, FALSE, Hist(h), FALSE))

NextMarketValidationOnly == MarketValidation

SpecMarketValidation ==
    InitMarketValidationOnly /\ [][NextMarketValidationOnly]_vars

\* The sums of the last k closes and of the volumes of the records at
\* distance lo..hi from the newest one (distance 0).
CloseSum(h, k) == SumField(h, "Close", Len(h) - k + 1, Len(h))
VolumeSum(h, lo, hi) == SumField(h, "Volume", Len(h) - hi, Len(h) - lo)

\* The three momentum flags, without a division: current > ma50,
\* current > ma200, ma50 > ma200.
AboveMa50(h) == 50 * h[Len(h)].Close > CloseSum(h, 50)
AboveMa200(h) == 200 * h[Len(h)].Close > CloseSum(h, 200)
Ma50AboveMa200(h) == 4 * CloseSum(h, 50) > CloseSum(h, 200)

MomentumValues == {Num(0), Num(20), Num(40), Num(60), Num(80), Num(100)}

\* Each of the six values is the momentum score of some history of 200
\* records.
AllMomentumValuesAttained ==
    \A v \in MomentumValues :
        \E c \in CloseShapes :
            calculate_market_validation(
                Stock(<<>>, FALSE, MkHist(200, c, <<1, 1, 1>>, -1), FALSE)
            ).momentum_score = v

\* C14: from 200 records on, momentum_score is 40 if the last close is above
\* the mean of the last 50 closes, plus 40 if it is above the mean of the
\* last 200, plus 20 if the first mean is above the second; it is one of
\* 0, 20, 40, 60, 80, 100, each of which some history attains; and it is 20
\* only when the third flag alone is true.
C14_MomentumFlags ==
    (Done("calculate_market_validation") /\ ~ret.raised
        /\ Len(stock.hist) >= 200) =>
        LET h == stock.hist
            expected ==
                (IF AboveMa50(h) THEN 40 ELSE 0)
                + (IF AboveMa200(h) THEN 40 ELSE 0)
                + (IF Ma50AboveMa200(h) THEN 20 ELSE 0)
        IN  /\ ret.momentum_score = Num(expected)
            /\ ret.momentum_score \in MomentumValues
            /\ ret.momentum_score = Num(20) =>
                    Ma50AboveMa200(h) /\ ~AboveMa50(h) /\ ~AboveMa200(h)
            /\ AllMomentumValuesAttained

\* A history that rose and whose last close fell back below both means:
\* momentum 20.
C14_Witness ==
    /\ Done("calculate_market_validation")
    /\ Len(stock.hist) = 201
    /\ ret.momentum_score = Num(20)
    /\ Ma50AboveMa200(stock.hist)
    /\ ~AboveMa50(stock.hist)

\* mean of the last 20 volumes / mean of the 30 before them, 1 when the
\* older mean is 0 (volumes are not negative)
TrendOf(h) ==
    IF VolumeSum(h, 20, 49) = 0 THEN Num(1)
    ELSE Frac(30 * VolumeSum(h, 0, 19), 20 * VolumeSum(h, 20, 49))

\* C15, as stated: volume_trend is the ratio of the two window means, 1 when
\* the older mean is 0; volume_score is clamp(50 * volume_trend); a flat or
\* undefined trend scores 50, a trend of 2 or more scores 100, and zero
\* recent volume scores 0.
C15_VolumeScoreAsStated ==
    (Done("calculate_market_validation") /\ ~ret.raised
        /\ Len(stock.hist) >= 200) =>
        LET h == stock.hist
        IN  /\ ret.metrics.volume_trend = TrendOf(h)
            /\ ret.volume_score = Clamped(RMul(Num(50), TrendOf(h)))
            /\ (VolumeSum(h, 20, 49) = 0 \/ TrendOf(h) = Num(1)) =>
                    ret.volume_score = Num(50)
            /\ RGe(TrendOf(h), Num(2)) => ret.volume_score = Num(100)
            /\ VolumeSum(h, 0, 19) = 0 => ret.volume_score = Num(0)

\* C15: volume_trend is the ratio of the two window means, 1 when the older
\* mean is 0; volume_score is clamp(50 * volume_trend); a flat or undefined
\* trend scores 50, a trend of 2 or more scores 100, and zero recent volume
\* after a positive older volume scores 0.
C15_VolumeScore ==
    (Done("calculate_market_validation") /\ ~ret.raised
        /\ Len(stock.hist) >= 200) =>
        LET h == stock.hist
        IN  /\ ret.metrics.volume_trend = TrendOf(h)
            /\ ret.volume_score = Clamped(RMul(Num(50), TrendOf(h)))
            /\ (VolumeSum(h, 20, 49) = 0 \/ TrendOf(h) = Num(1)) =>
                    ret.volume_score = Num(50)
            /\ RGe(TrendOf(h), Num(2)) => ret.volume_score = Num(100)
            /\ (VolumeSum(h, 0, 19) = 0 /\ VolumeSum(h, 20, 49) > 0) =>
                    ret.volume_score = Num(0)

\* No volume at all in the last 50 records: the trend is 1 by default and
\* the score 50, with zero recent volume.
C15_Witness ==
    /\ Done("calculate_market_validation")
    /\ Len(stock.hist) >= 200
    /\ VolumeSum(stock.hist, 0, 19) = 0
    /\ VolumeSum(stock.hist, 20, 49) = 0
    /\ VolumeSum(stock.hist, 50, 199) > 0
    /\ ret.metrics.volume_trend = Num(1)
    /\ ret.volume_score = Num(50)

\* C18: calculate_market_validation returns momentum_score = 50 exactly when
\* the history has fewer than 200 records; every score computed from 200 or
\* more records is a multiple of 20.
C18_FallbackObservable ==
    (Done("calculate_market_validation") /\ ~ret.raised) =>
        /\ ret.momentum_score = Num(50) <=> Len(stock.hist) < 200
        /\ Len(stock.hist) >= 200 =>
                /\ ret.momentum_score[2] = 1
                /\ ret.momentum_score[1] % 20 = 0

\* 200 records of one and the same close: the price is at both means, and
\* the score computed is 0, not the 50 of the fallback.
C18_Witness ==
    /\ Done("calculate_market_validation")
    /\ Len(stock.hist) = 200
    /\ \A j \in DOMAIN stock.hist : stock.hist[j].Close = stock.hist[1].Close
    /\ ret.momentum_score = Num(0)

-----------------------------------------------------------------------------
(* calculate_business_health called alone.                                 *)

InitBusinessHealthOnly ==
    /\ InitCall
    /\ InitBusinessHealth

NextBusinessHealthOnly == BusinessHealth

SpecBusinessHealth ==
    InitBusinessHealthOnly /\ [][NextBusinessHealthOnly]_vars

Least(a, b) == IF RLt(a, b) THEN a ELSE b

\* total_cash / max(total_debt, 1), each with its default when absent
CashToDebtOf(info) ==
    LET cash == ValueOr(info, "totalCash", Num(0))
        debt == ValueOr(info, "totalDebt", Num(1))
    IN  RDiv(cash, IF RLt(debt, Num(1)) THEN Num(1) ELSE debt)

\* The info with key k set to v.
WithKey(info, k, v) ==
    [x \in DOMAIN info \cup {k} |-> IF x = k THEN v ELSE info[x]]

\* The financial score the function gives to an info.
FinancialScoreOf(info) == calculate_business_health(info).financial_score

\* C16: financial_score is clamp(30*min(2, current_ratio)
\* + 40*min(1, cash_to_debt) + 30*(1 - min(1, debt_to_equity/100))) with
\* cash_to_debt = total_cash / max(total_debt, 1); it does not decrease when
\* the current ratio or the cash-to-debt ratio grows, does not increase when
\* debt-to-equity grows, and stays the same when a current ratio of 2 or
\* more, a cash-to-debt of 1 or more or a debt-to-equity of 100 or more is
\* raised; from a debt-to-equity of 100 on the leverage term is 0.
C16_FinancialScore ==
    (Done("calculate_business_health") /\ ~ret.raised) =>
        LET info == stock.info
            cr == ValueOr(info, "currentRatio", Num(1))
            de == ValueOr(info, "debtToEquity", Num(0))
            c2d == CashToDebtOf(info)
            liquidity == RMul(Num(30), Least(Num(2), cr))
            coverage == RMul(Num(40), Least(Num(1), c2d))
            leverage ==
                RMul(Num(30), RSub(Num(1), Least(Num(1), RDiv(de, Num(100)))))
            fs == ret.financial_score
        IN  /\ fs = Clamped(RAdd(RAdd(liquidity, coverage), leverage))
            /\ ret.metrics.cash_to_debt = c2d
            /\ \A cr2 \in CurrentRatioInputs \ {Absent} :
                  RGe(cr2, cr) =>
                    LET fs2 == FinancialScoreOf(WithKey(info, "currentRatio", cr2))
                    IN  /\ RGe(fs2, fs)
                        /\ RGe(cr, Num(2)) => fs2 = fs
            /\ \A cash2 \in CashInputs \ {Absent}, debt2 \in DebtInputs \ {Absent} :
                  LET info2 == WithKey(WithKey(info, "totalCash", cash2),
                                       "totalDebt", debt2)
                      fs2 == FinancialScoreOf(info2)
                  IN  RGe(CashToDebtOf(info2), c2d) =>
                        /\ RGe(fs2, fs)
                        /\ RGe(c2d, Num(1)) => fs2 = fs
            /\ \A de2 \in DebtToEquityInputs \ {Absent} :
                  RGe(de2, de) =>
                    LET fs2 == FinancialScoreOf(WithKey(info, "debtToEquity", de2))
                    IN  /\ RLe(fs2, fs)
                        /\ RGe(de, Num(100)) => fs2 = fs
            /\ RGe(de, Num(100)) =>
                    /\ leverage = Num(0)
                    /\ fs = Clamped(RAdd(liquidity, coverage))

\* A current ratio of 3, cash far above the debt and a debt-to-equity of
\* 250: 60 + 40 + 0.
C16_Witness ==
    /\ Done("calculate_business_health")
    /\ {"currentRatio", "debtToEquity", "totalCash", "totalDebt"}
            \subseteq DOMAIN stock.info
    /\ stock.info.currentRatio = Num(3)
    /\ stock.info.debtToEquity = Num(250)
    /\ stock.info.totalCash = Num(1000000)
    /\ stock.info.totalDebt = Num(300)
    /\ ret.financial_score = Num(100)

-----------------------------------------------------------------------------
(* The two gates: analyze_stock's and filter_stock's market-cap criterion. *)

\* constants.py: MARKET_CAP_RANGE, as <<hi, lo>> pairs.
MARKET_CAP_RANGE == <<<<1, 0>>, <<70, 0>>>>

\* analyze_stock on every market cap drawn, absent and null included.
InitAnalyzeGateOnly ==
    /\ InitCall
    /\ op = "analyze_stock"
    /\ InitAnalyzeGate

NextAnalyzeGateOnly == AnalyzeStock

SpecAnalyzeGate == InitAnalyzeGateOnly /\ [][NextAnalyzeGateOnly]_vars

\* filter_stock's verdict on the market cap alone: the stock's marketCap
\* entry, a volume at the floor, and a known ticker.
FilterAdmitsCap(st, t) ==
    LET info ==
            [k \in (DOMAIN st.info \cap {"marketCap"}) \cup {"averageVolume"} |->
                IF k = "averageVolume" THEN min_volume ELSE st.info[k]]
    IN  filter_stock(Stock(info, FALSE, <<>>, FALSE), t).row # PyNone

\* analyze_stock went past its gate: it called the first scoring function.
AnalyzerAdmitsCap == Len(calls) > 1

\* The market cap is present, not null, and within MARKET_CAP_RANGE, ends
\* included.
InMarketCapRange(st) ==
    /\ "marketCap" \in DOMAIN st.info
    /\ st.info.marketCap # CapNone
    /\ ~CapLt(st.info.marketCap, MARKET_CAP_RANGE[1])
    /\ ~CapLt(MARKET_CAP_RANGE[2], st.info.marketCap)

\* C17: for every market cap, absent ones included, analyze_stock lets the
\* ticker past its gate exactly when filter_stock's market-cap criterion
\* admits it, which is exactly when the cap lies in MARKET_CAP_RANGE, ends
\* included; and the bands of the analyzer and of the builder are both
\* MARKET_CAP_RANGE.
C17_SameGate ==
    /\ <<analyzer.min_market_cap, analyzer.max_market_cap>> = MARKET_CAP_RANGE
    /\ <<ub_min_market_cap, ub_max_market_cap>> = MARKET_CAP_RANGE
    /\ (Done("analyze_stock") /\ ~stock.info_raises) =>
            /\ AnalyzerAdmitsCap <=> FilterAdmitsCap(stock, arg_ticker)
            /\ AnalyzerAdmitsCap <=> InMarketCapRange(stock)

\* A cap of exactly 70,000,000,000: both gates admit it.
C17_Witness ==
    /\ Done("analyze_stock")
    /\ CapOf(stock) = <<70, 0>>
    /\ ~stock.info_raises
    /\ AnalyzerAdmitsCap
    /\ FilterAdmitsCap(stock, arg_ticker)

=============================================================================
